---------------------------- MODULE Spec2Model ----------------------------
(***************************************************************************)
(* Edison Catalogue API v2 (backend_serveur.py): a FastAPI application     *)
(* over one SQLite file.  Every handler is a plain `def`, so the framework *)
(* runs concurrent requests on separate threads, each with a connection of *)
(* its own (get_db).  A handler is modelled statement by statement: one    *)
(* action per SQL statement / commit, with SQLite's single-writer lock     *)
(* between a connection's first write and its commit or close.             *)
(*                                                                         *)
(* Strings are opaque values (accents and emoji are written in ASCII).     *)
(* Prices (REAL) are written in cents.  created_at is only ever set by the *)
(* column DEFAULT and is carried as the symbolic value CURRENT_TIMESTAMP.  *)
(* sqlite3.connect's busy timeout (5 s) is not modelled: a writer that     *)
(* finds the lock taken waits for it.                                      *)
(*                                                                         *)
(* The batch synchronizer and the purchase-request submitter have no code  *)
(* in backend_serveur.py; they are written from the specification.         *)
(***************************************************************************)
EXTENDS Integers, Sequences, FiniteSets, TLC

VARIABLES
    products,   \* table products (committed rows, in rowid order)
    families,   \* table families (committed rows)
    family_seq, \* sqlite_sequence of families: last AUTOINCREMENT id given
    users,      \* table users (committed rows)
    writer,     \* the connection holding SQLite's write lock, 0 when free
    pending,    \* the lock holder's uncommitted tables
    pc,         \* per request thread: the statement it is about to run
    req,        \* per request thread: the request it is serving
    local,      \* per request thread: the rows its last fetch returned
    resp,       \* per request thread: the HTTP response, status 0 until sent
    snap,       \* history: the committed tables when the request arrived
    clock,      \* datetime.now()
    purchase_requests,  \* table purchase_requests (request headers)
    da_articles,        \* table da_articles (line-items)
    da_seq              \* the last da_number generated

vars == <<products, families, family_seq, users, writer, pending,
          pc, req, local, resp, snap, clock,
          purchase_requests, da_articles, da_seq>>

---------------------------------------------------------------------------
(* Bounds *)

\* Request threads; in Spec and SpecUsers each serves one request.
NumCalls == 2

\* Last value datetime.now() takes.
MaxClock == 2

\* Longest batch of POST /api/products/batch.
MaxBatch == 3

\* Most line-items of a purchase request.
MaxArticles == 3

\* Last da_number the model lets the submitter generate.
MaxDa == 2

\* Last AUTOINCREMENT id the model lets families reach.
MaxFamilyId == 13

Procs == 1..NumCalls

---------------------------------------------------------------------------
(* Rows and tables *)

CURRENT_TIMESTAMP == "CURRENT_TIMESTAMP"

ProductRow(reference, designation, price, unit, family, icon) ==
    [reference |-> reference, designation |-> designation, price |-> price,
     unit |-> unit, family |-> family, icon |-> icon,
     created_at |-> CURRENT_TIMESTAMP]

default_products ==
    << ProductRow("CAB001", "CABLE U1000 R2V 3G2.5", 245, "M", "Cables", "plug"),
       ProductRow("DIS001", "DISJONCTEUR 16A COURBE C", 890, "U", "Protection", "bolt"),
       ProductRow("INT001", "INTERRUPTEUR VA-ET-VIENT BLANC", 320, "U", "Appareillage", "bulb") >>

FamilyRow(id, name, icon) ==
    [id |-> id, name |-> name, icon |-> icon, created_at |-> CURRENT_TIMESTAMP]

default_families ==
    << [name |-> "Cables", icon |-> "plug"],
       [name |-> "Protection", icon |-> "bolt"],
       [name |-> "Appareillage", icon |-> "bulb"],
       [name |-> "Tableaux", icon |-> "board"],
       [name |-> "Gaines", icon |-> "wrench"],
       [name |-> "Eclairage", icon |-> "bulb"] >>

\* hashlib.sha256(password.encode()).hexdigest(): a digest is never the
\* password itself, and distinct passwords have distinct digests.
sha256(password) == "sha256:" \o password

NoLogin == "NULL"

UserRow(email, name, password, role) ==
    [email |-> email, name |-> name, password |-> password, role |-> role,
     created_at |-> CURRENT_TIMESTAMP, last_login |-> NoLogin]

default_user ==
    UserRow("t.tesson@edison-energies.com", "Thomas Tesson",
            sha256("demo123"), "superadmin")

Tables(p, f, s, u) ==
    [products |-> p, families |-> f, family_seq |-> s, users |-> u]

Committed == Tables(products, families, family_seq, users)

\* The tables as the CREATE TABLE IF NOT EXISTS statements make them.
EmptyDb == Tables(<<>>, <<>>, 0, <<>>)

NoTxn == EmptyDb

\* What connection p reads: its own uncommitted writes, else the committed rows.
View(p) == IF writer = p THEN pending ELSE Committed

\* SELECT * FROM products WHERE reference = ?
SelectProduct(tbl, reference) ==
    SelectSeq(tbl, LAMBDA r : r.reference = reference)

\* PRIMARY KEY of products, as a mutant without the constraint.
ProductKeyTaken_NoConstraint(tbl, reference) == FALSE

\* reference TEXT PRIMARY KEY: an INSERT of a stored reference raises IntegrityError.
ProductKeyTaken(tbl, reference) ==
    \E i \in DOMAIN tbl : tbl[i].reference = reference

\* INSERT INTO products (reference, designation, price, unit, family, icon)
InsertProduct(tbl, product) ==
    Append(tbl, ProductRow(product.reference, product.designation,
                           product.price, product.unit, product.family,
                           product.icon))

\* DELETE FROM products WHERE reference = ?
DeleteProduct(tbl, reference) ==
    SelectSeq(tbl, LAMBDA r : r.reference # reference)

ProductFields == {"designation", "price", "unit", "family", "icon"}

\* update_product as a mutant testing truthiness (`if product.price:`):
\* a price of 0 is dropped from the SET list.
SuppliedFields_Truthy(product) ==
    {f \in DOMAIN product : ~(f = "price" /\ product[f] = 0)}

\* The fields of a ProductUpdate that are `is not None`.  A ProductUpdate is
\* written as the record of its non-null fields.
SuppliedFields(product) == DOMAIN product

\* UPDATE products SET <supplied fields> WHERE reference = ?
UpdateProduct(tbl, reference, product) ==
    [i \in DOMAIN tbl |->
        IF tbl[i].reference = reference
        THEN [f \in DOMAIN tbl[i] |->
                IF f \in SuppliedFields(product) THEN product[f] ELSE tbl[i][f]]
        ELSE tbl[i]]

\* datetime.now().isoformat()
isoformat(t) == "T" \o ToString(t)

\* login as a mutant whose SELECT matches on the email alone.
SelectLogin_EmailOnly(tbl, email, hashed_pw) ==
    SelectSeq(tbl, LAMBDA r : r.email = email)

\* SELECT * FROM users WHERE email = ? AND password = ?
SelectLogin(tbl, email, hashed_pw) ==
    SelectSeq(tbl, LAMBDA r : r.email = email /\ r.password = hashed_pw)

\* email TEXT PRIMARY KEY
UserKeyTaken(tbl, email) == \E i \in DOMAIN tbl : tbl[i].email = email

\* INSERT INTO users (email, name, password, role)
InsertUser(tbl, user, hashed_pw) ==
    Append(tbl, UserRow(user.email, user.name, hashed_pw, user.role))

\* UPDATE users SET last_login = ? WHERE email = ?
UpdateLastLogin(tbl, email, now) ==
    [i \in DOMAIN tbl |->
        IF tbl[i].email = email THEN [tbl[i] EXCEPT !.last_login = now]
        ELSE tbl[i]]

\* SELECT <columns> FROM <tbl>: each row cut to the columns.
Project(tbl, columns) ==
    [i \in DOMAIN tbl |-> [f \in columns |-> tbl[i][f]]]

\* login as a mutant that forgets user_dict.pop('password', None).
pop_Forgotten(row, key) == row

\* dict.pop(key, None): the dict without the key.
pop(row, key) == [f \in DOMAIN row \ {key} |-> row[f]]

\* SELECT * FROM families WHERE id = ?
SelectFamily(tbl, family_id) == SelectSeq(tbl, LAMBDA r : r.id = family_id)

\* SELECT * FROM families WHERE name = ?
SelectFamilyByName(tbl, name) == SelectSeq(tbl, LAMBDA r : r.name = name)

\* name TEXT UNIQUE NOT NULL
FamilyNameTaken(tbl, name) == \E i \in DOMAIN tbl : tbl[i].name = name

\* INSERT INTO families (name, icon) for each of the rows, in order;
\* id INTEGER PRIMARY KEY AUTOINCREMENT gives the ids after sqlite_sequence.
InsertFamilies(t, rows) ==
    [t EXCEPT
        !.families = @ \o [i \in DOMAIN rows |->
                            FamilyRow(t.family_seq + i, rows[i].name, rows[i].icon)],
        !.family_seq = @ + Len(rows)]

\* DELETE FROM families WHERE id = ?
DeleteFamily(tbl, family_id) == SelectSeq(tbl, LAMBDA r : r.id # family_id)

\* init_db as a mutant that inserts every default product that is not
\* stored (INSERT OR IGNORE) instead of testing COUNT(*) = 0.
init_db_InsertMissing(t) ==
    LET missing == SelectSeq(default_products,
                             LAMBDA d : ~ProductKeyTaken(t.products, d.reference))
        t1 == [t EXCEPT !.products = @ \o missing]
        t2 == IF Len(t1.families) = 0 THEN InsertFamilies(t1, default_families) ELSE t1
    IN  IF Len(t2.users) = 0 THEN [t2 EXCEPT !.users = <<default_user>>] ELSE t2

\* init_db: the tables are created if absent, and each table that holds no
\* row receives its default rows.
init_db(t) ==
    LET t1 == IF Len(t.products) = 0
              THEN [t EXCEPT !.products = default_products] ELSE t
        t2 == IF Len(t1.families) = 0
              THEN InsertFamilies(t1, default_families) ELSE t1
    IN  IF Len(t2.users) = 0 THEN [t2 EXCEPT !.users = <<default_user>>] ELSE t2

---------------------------------------------------------------------------
(* Responses *)

NoResponse == [status |-> 0]

NoRequest == [op |-> "none"]

HTTPException(status_code, detail) == [status |-> status_code, detail |-> detail]

\* An exception no handler catches: the framework answers 500.
InternalServerError == [status |-> 500, detail |-> "Internal Server Error"]

---------------------------------------------------------------------------
(* Connections *)

\* A write statement needs SQLite's write lock: it is free, or already mine.
CanWrite(p) == writer \in {0, p}

\* The write statement of connection p leaves its tables as t (not committed).
Write(p, t) ==
    /\ writer' = p
    /\ pending' = t
    /\ UNCHANGED <<products, families, family_seq, users>>
    /\ UNCHANGED <<purchase_requests, da_articles, da_seq>>

\* conn.commit()
Commit(p) ==
    /\ products' = View(p).products
    /\ families' = View(p).families
    /\ family_seq' = View(p).family_seq
    /\ users' = View(p).users
    /\ writer' = IF writer = p THEN 0 ELSE writer
    /\ pending' = IF writer = p THEN NoTxn ELSE pending
    /\ UNCHANGED <<purchase_requests, da_articles, da_seq>>

\* conn.close(): an open transaction is rolled back.
Close(p) ==
    /\ writer' = IF writer = p THEN 0 ELSE writer
    /\ pending' = IF writer = p THEN NoTxn ELSE pending
    /\ UNCHANGED <<products, families, family_seq, users>>
    /\ UNCHANGED <<purchase_requests, da_articles, da_seq>>

\* conn.close() after a statement failed inside a transaction, the cursor
\* still being referenced: the rollback is done by close(), or, where
\* close() leaves the connection to its last statement (sqlite3_close_v2),
\* only once the cursor is released.
CloseAfterError(p) ==
    /\ \E rolled_back \in BOOLEAN :
          /\ writer' = IF writer = p /\ rolled_back THEN 0 ELSE writer
          /\ pending' = IF writer = p /\ rolled_back THEN NoTxn ELSE pending
    /\ UNCHANGED <<products, families, family_seq, users>>
    /\ UNCHANGED <<purchase_requests, da_articles, da_seq>>

NoCatalogueWrite ==
    UNCHANGED <<products, families, family_seq, users, writer, pending>>

NoDb ==
    /\ NoCatalogueWrite
    /\ UNCHANGED <<purchase_requests, da_articles, da_seq>>

Goto(p, label) == pc' = [pc EXCEPT ![p] = label]

Return(p, response) ==
    /\ pc' = [pc EXCEPT ![p] = "done"]
    /\ resp' = [resp EXCEPT ![p] = response]

\* A request arrives on an idle thread.
Receive(p, request, label) ==
    /\ pc[p] = "idle"
    /\ req' = [req EXCEPT ![p] = request]
    /\ snap' = [snap EXCEPT ![p] = Committed]
    /\ pc' = [pc EXCEPT ![p] = label]
    /\ NoDb
    /\ UNCHANGED <<local, resp, clock>>

---------------------------------------------------------------------------
(* POST /api/products *)

\* cursor.execute("INSERT INTO products ...") inside the try
add_product_insert(p) ==
    /\ pc[p] = "add_product_insert"
    /\ CanWrite(p)
    /\ IF ProductKeyTaken(View(p).products, req[p].product.reference)
       THEN /\ Write(p, View(p))
            /\ Goto(p, "add_product_except")
       ELSE /\ Write(p, [View(p) EXCEPT !.products =
                            InsertProduct(@, req[p].product)])
            /\ Goto(p, "add_product_commit")
    /\ UNCHANGED <<req, local, resp, snap, clock>>

\* conn.commit(); conn.close(); return {...}
add_product_commit(p) ==
    /\ pc[p] = "add_product_commit"
    /\ Commit(p)
    /\ Return(p, [status |-> 200, success |-> TRUE,
                  message |-> "Produit ajoute avec succes",
                  product |-> req[p].product])
    /\ UNCHANGED <<req, local, snap, clock>>

\* add_product as a mutant that treats a duplicate reference as an update.
add_product_except_Upsert(p) ==
    /\ pc[p] = "add_product_except"
    /\ products' = UpdateProduct(products, req[p].product.reference,
                                 [f \in ProductFields |-> req[p].product[f]])
    /\ writer' = 0
    /\ pending' = NoTxn
    /\ Return(p, [status |-> 200, success |-> TRUE,
                  message |-> "Produit ajoute avec succes",
                  product |-> req[p].product])
    /\ UNCHANGED <<families, family_seq, users, req, local, snap, clock>>
    /\ UNCHANGED <<purchase_requests, da_articles, da_seq>>

\* except sqlite3.IntegrityError: conn.close(); raise HTTPException(400)
add_product_except(p) ==
    /\ pc[p] = "add_product_except"
    /\ CloseAfterError(p)
    /\ Return(p, HTTPException(400, "Cette reference existe deja"))
    /\ UNCHANGED <<req, local, snap, clock>>

---------------------------------------------------------------------------
(* PUT /api/products/{reference} *)

\* SELECT ... ; if not cursor.fetchone(): conn.close(); raise 404
update_product_select(p) ==
    /\ pc[p] = "update_product_select"
    /\ IF SelectProduct(View(p).products, req[p].reference) = <<>>
       THEN /\ Close(p)
            /\ Return(p, HTTPException(404, "Produit non trouve"))
       ELSE /\ NoDb
            /\ Goto(p, IF SuppliedFields(req[p].product) # {}
                       THEN "update_product_update"
                       ELSE "update_product_reselect")
            /\ UNCHANGED resp
    /\ UNCHANGED <<req, local, snap, clock>>

\* if updates: cursor.execute("UPDATE products SET ... WHERE reference = ?")
update_product_update(p) ==
    /\ pc[p] = "update_product_update"
    /\ CanWrite(p)
    /\ Write(p, [View(p) EXCEPT !.products =
                    UpdateProduct(@, req[p].reference, req[p].product)])
    /\ Goto(p, "update_product_commit")
    /\ UNCHANGED <<req, local, resp, snap, clock>>

\* conn.commit()
update_product_commit(p) ==
    /\ pc[p] = "update_product_commit"
    /\ Commit(p)
    /\ Goto(p, "update_product_reselect")
    /\ UNCHANGED <<req, local, resp, snap, clock>>

\* SELECT ... ; updated_product = dict(cursor.fetchone()); conn.close(); return
\* dict(None) raises TypeError when the row is gone.
update_product_reselect(p) ==
    /\ pc[p] = "update_product_reselect"
    /\ LET rows == SelectProduct(View(p).products, req[p].reference) IN
       IF rows = <<>>
       THEN Return(p, InternalServerError)
       ELSE Return(p, [status |-> 200, success |-> TRUE,
                       message |-> "Produit mis a jour",
                       product |-> Head(rows)])
    /\ Close(p)
    /\ UNCHANGED <<req, local, snap, clock>>

---------------------------------------------------------------------------
(* DELETE /api/products/{reference} *)

\* SELECT ... ; product = cursor.fetchone(); if not product: close; raise 404
delete_product_select(p) ==
    /\ pc[p] = "delete_product_select"
    /\ LET rows == SelectProduct(View(p).products, req[p].reference) IN
       IF rows = <<>>
       THEN /\ Close(p)
            /\ Return(p, HTTPException(404, "Produit non trouve"))
            /\ UNCHANGED local
       ELSE /\ NoDb
            /\ local' = [local EXCEPT ![p] = <<Head(rows)>>]
            /\ Goto(p, "delete_product_delete")
            /\ UNCHANGED resp
    /\ UNCHANGED <<req, snap, clock>>

\* cursor.execute("DELETE FROM products WHERE reference = ?")
delete_product_delete(p) ==
    /\ pc[p] = "delete_product_delete"
    /\ CanWrite(p)
    /\ Write(p, [View(p) EXCEPT !.products =
                    DeleteProduct(@, req[p].reference)])
    /\ Goto(p, "delete_product_commit")
    /\ UNCHANGED <<req, local, resp, snap, clock>>

\* conn.commit(); conn.close(); return {..., "product": dict(product)}
delete_product_commit(p) ==
    /\ pc[p] = "delete_product_commit"
    /\ Commit(p)
    /\ Return(p, [status |-> 200, success |-> TRUE,
                  message |-> "Produit supprime",
                  product |-> local[p][1]])
    /\ UNCHANGED <<req, local, snap, clock>>


---------------------------------------------------------------------------
(* POST /api/login *)

\* hashed_pw = sha256(password); SELECT ...; user = cursor.fetchone()
\* if not user: conn.close(); raise HTTPException(401)
login_select(p) ==
    /\ pc[p] = "login_select"
    /\ LET rows == SelectLogin(View(p).users, req[p].email,
                               sha256(req[p].password)) IN
       IF rows = <<>>
       THEN /\ Close(p)
            /\ Return(p, HTTPException(401, "Email ou mot de passe incorrect"))
            /\ UNCHANGED local
       ELSE /\ NoDb
            /\ local' = [local EXCEPT ![p] = <<Head(rows)>>]
            /\ Goto(p, "login_update")
            /\ UNCHANGED resp
    /\ UNCHANGED <<req, snap, clock>>

\* cursor.execute("UPDATE users SET last_login = ? WHERE email = ?")
login_update(p) ==
    /\ pc[p] = "login_update"
    /\ CanWrite(p)
    /\ Write(p, [View(p) EXCEPT !.users =
                    UpdateLastLogin(@, req[p].email, isoformat(clock))])
    /\ Goto(p, "login_commit")
    /\ UNCHANGED <<req, local, resp, snap, clock>>

\* conn.commit(); conn.close(); user_dict = dict(user); user_dict.pop('password')
login_commit(p) ==
    /\ pc[p] = "login_commit"
    /\ Commit(p)
    /\ Return(p, [status |-> 200, success |-> TRUE,
                  message |-> "Connexion reussie",
                  user |-> pop(local[p][1], "password")])
    /\ UNCHANGED <<req, local, snap, clock>>

---------------------------------------------------------------------------
(* GET /api/users *)

\* SELECT email, name, role, created_at, last_login FROM users
get_users(p) ==
    /\ pc[p] = "get_users"
    /\ Close(p)
    /\ LET rows == Project(View(p).users,
                           {"email", "name", "role", "created_at", "last_login"}) IN
       Return(p, [status |-> 200, success |-> TRUE,
                  count |-> Len(rows), users |-> rows])
    /\ UNCHANGED <<req, local, snap, clock>>

---------------------------------------------------------------------------
(* POST /api/users *)

\* hashed_pw = sha256(password); cursor.execute("INSERT INTO users ...")
create_user_insert(p) ==
    /\ pc[p] = "create_user_insert"
    /\ CanWrite(p)
    /\ IF UserKeyTaken(View(p).users, req[p].user.email)
       THEN /\ Write(p, View(p))
            /\ Goto(p, "create_user_except")
       ELSE /\ Write(p, [View(p) EXCEPT !.users =
                            InsertUser(@, req[p].user, sha256(req[p].user.password))])
            /\ Goto(p, "create_user_commit")
    /\ UNCHANGED <<req, local, resp, snap, clock>>

\* conn.commit(); conn.close(); return {...}
create_user_commit(p) ==
    /\ pc[p] = "create_user_commit"
    /\ Commit(p)
    /\ Return(p, [status |-> 200, success |-> TRUE,
                  message |-> "Utilisateur cree avec succes"])
    /\ UNCHANGED <<req, local, snap, clock>>

\* except sqlite3.IntegrityError: conn.close(); raise HTTPException(400)
create_user_except(p) ==
    /\ pc[p] = "create_user_except"
    /\ CloseAfterError(p)
    /\ Return(p, HTTPException(400, "Cet utilisateur existe deja"))
    /\ UNCHANGED <<req, local, snap, clock>>

\* Time passes.
tick ==
    /\ clock < MaxClock
    /\ clock' = clock + 1
    /\ NoDb
    /\ UNCHANGED <<pc, req, local, resp, snap>>

---------------------------------------------------------------------------
(* POST /api/families *)

\* cursor.execute("INSERT INTO families (name, icon) VALUES (?, ?)")
add_family_insert(p) ==
    /\ pc[p] = "add_family_insert"
    /\ CanWrite(p)
    /\ View(p).family_seq < MaxFamilyId
    /\ IF FamilyNameTaken(View(p).families, req[p].family.name)
       THEN /\ Write(p, View(p))
            /\ Goto(p, "add_family_except")
       ELSE /\ Write(p, InsertFamilies(View(p), <<req[p].family>>))
            /\ Goto(p, "add_family_commit")
    /\ UNCHANGED <<req, local, resp, snap, clock>>

\* conn.commit()
add_family_commit(p) ==
    /\ pc[p] = "add_family_commit"
    /\ Commit(p)
    /\ Goto(p, "add_family_reselect")
    /\ UNCHANGED <<req, local, resp, snap, clock>>

\* SELECT * FROM families WHERE name = ?; new_family = dict(cursor.fetchone())
\* dict(None) raises TypeError, which the except clause does not catch.
add_family_reselect(p) ==
    /\ pc[p] = "add_family_reselect"
    /\ LET rows == SelectFamilyByName(View(p).families, req[p].family.name) IN
       IF rows = <<>>
       THEN Return(p, InternalServerError)
       ELSE Return(p, [status |-> 200, success |-> TRUE,
                       message |-> "Famille ajoutee", family |-> Head(rows)])
    /\ Close(p)
    /\ UNCHANGED <<req, local, snap, clock>>

\* except sqlite3.IntegrityError: conn.close(); raise HTTPException(400)
add_family_except(p) ==
    /\ pc[p] = "add_family_except"
    /\ CloseAfterError(p)
    /\ Return(p, HTTPException(400, "Cette famille existe deja"))
    /\ UNCHANGED <<req, local, snap, clock>>

---------------------------------------------------------------------------
(* DELETE /api/families/{family_id} *)

\* SELECT ...; family = cursor.fetchone(); if not family: close; raise 404
delete_family_select(p) ==
    /\ pc[p] = "delete_family_select"
    /\ IF SelectFamily(View(p).families, req[p].family_id) = <<>>
       THEN /\ Close(p)
            /\ Return(p, HTTPException(404, "Famille non trouvee"))
       ELSE /\ NoDb
            /\ Goto(p, "delete_family_delete")
            /\ UNCHANGED resp
    /\ UNCHANGED <<req, local, snap, clock>>

\* cursor.execute("DELETE FROM families WHERE id = ?")
delete_family_delete(p) ==
    /\ pc[p] = "delete_family_delete"
    /\ CanWrite(p)
    /\ Write(p, [View(p) EXCEPT !.families = DeleteFamily(@, req[p].family_id)])
    /\ Goto(p, "delete_family_commit")
    /\ UNCHANGED <<req, local, resp, snap, clock>>

\* conn.commit(); conn.close(); return {...}
delete_family_commit(p) ==
    /\ pc[p] = "delete_family_commit"
    /\ Commit(p)
    /\ Return(p, [status |-> 200, success |-> TRUE,
                  message |-> "Famille supprimee"])
    /\ UNCHANGED <<req, local, snap, clock>>

---------------------------------------------------------------------------
(* Restart *)

\* The server process stops: the requests in flight are lost and SQLite
\* rolls back the transaction that was open.
shutdown ==
    /\ \E p \in Procs : pc[p] # "down"
    /\ pc' = [p \in Procs |-> "down"]
    /\ req' = [p \in Procs |-> NoRequest]
    /\ local' = [p \in Procs |-> <<>>]
    /\ resp' = [p \in Procs |-> NoResponse]
    /\ snap' = [p \in Procs |-> NoTxn]
    /\ writer' = 0
    /\ pending' = NoTxn
    /\ UNCHANGED <<products, families, family_seq, users, clock>>
    /\ UNCHANGED <<purchase_requests, da_articles, da_seq>>

\* @app.on_event("startup"): init_db() runs before any request is served.
startup_event ==
    /\ \A p \in Procs : pc[p] = "down"
    /\ Len(families) = 0 => family_seq + Len(default_families) <= MaxFamilyId
    /\ products' = init_db(Committed).products
    /\ families' = init_db(Committed).families
    /\ family_seq' = init_db(Committed).family_seq
    /\ users' = init_db(Committed).users
    /\ pc' = [p \in Procs |-> "idle"]
    /\ UNCHANGED <<writer, pending, req, local, resp, snap, clock>>
    /\ UNCHANGED <<purchase_requests, da_articles, da_seq>>

---------------------------------------------------------------------------
(* POST /api/products/batch: the batch synchronizer.  Its code is not in   *)
(* backend_serveur.py; it is written from the specification's section 4.2. *)

\* A price is a non-negative decimal: a negative one fails the item.
Malformed(item) == item.price < 0

NewReport == [i |-> 1, created |-> 0, updated |-> 0, failed |-> 0, errors |-> <<>>]

\* The report starts empty.
batch_sync_begin(p) ==
    /\ pc[p] = "batch_sync_begin"
    /\ local' = [local EXCEPT ![p] = <<NewReport>>]
    /\ Goto(p, "batch_sync_item")
    /\ NoDb
    /\ UNCHANGED <<req, resp, snap, clock>>

\* The synchronizer as a mutant that lets an item's failure end the batch.
batch_sync_item_Abort(p) ==
    /\ pc[p] = "batch_sync_item"
    /\ local[p][1].i <= Len(req[p].items)
    /\ CanWrite(p)
    /\ LET report == local[p][1]
           item == req[p].items[report.i]
       IN  IF Malformed(item)
           THEN /\ Return(p, HTTPException(400, "price must not be negative"))
                /\ UNCHANGED <<products, local>>
           ELSE /\ products' = IF SelectProduct(products, item.reference) # <<>>
                               THEN UpdateProduct(products, item.reference,
                                        [f \in ProductFields |-> item[f]])
                               ELSE InsertProduct(products, item)
                /\ local' = [local EXCEPT ![p] = <<[report EXCEPT !.i = @ + 1]>>]
                /\ UNCHANGED <<pc, resp>>
    /\ UNCHANGED <<families, family_seq, users, writer, pending>>
    /\ UNCHANGED <<purchase_requests, da_articles, da_seq>>
    /\ UNCHANGED <<req, snap, clock>>

\* The next item, in input order: an update if its reference is stored,
\* an insert otherwise; a failure is caught and recorded with the reference.
batch_sync_item(p) ==
    /\ pc[p] = "batch_sync_item"
    /\ local[p][1].i <= Len(req[p].items)
    /\ CanWrite(p)
    /\ LET report == local[p][1]
           item == req[p].items[report.i]
       IN  IF Malformed(item)
           THEN /\ UNCHANGED products
                /\ local' = [local EXCEPT ![p] = <<[report EXCEPT
                                !.i = @ + 1,
                                !.failed = @ + 1,
                                !.errors = Append(@, [reference |-> item.reference,
                                                      error |-> "price must not be negative"])]>>]
           ELSE IF SelectProduct(products, item.reference) # <<>>
           THEN /\ products' = UpdateProduct(products, item.reference,
                                             [f \in ProductFields |-> item[f]])
                /\ local' = [local EXCEPT ![p] = <<[report EXCEPT
                                !.i = @ + 1, !.updated = @ + 1]>>]
           ELSE /\ products' = InsertProduct(products, item)
                /\ local' = [local EXCEPT ![p] = <<[report EXCEPT
                                !.i = @ + 1, !.created = @ + 1]>>]
    /\ UNCHANGED <<families, family_seq, users, writer, pending>>
    /\ UNCHANGED <<purchase_requests, da_articles, da_seq>>
    /\ UNCHANGED <<pc, req, resp, snap, clock>>

\* After the last item: {created, updated, failed, errors, total}.
batch_sync_return(p) ==
    /\ pc[p] = "batch_sync_item"
    /\ local[p][1].i > Len(req[p].items)
    /\ Return(p, [status |-> 200,
                  created |-> local[p][1].created,
                  updated |-> local[p][1].updated,
                  failed |-> local[p][1].failed,
                  errors |-> local[p][1].errors,
                  total |-> Len(req[p].items)])
    /\ NoDb
    /\ UNCHANGED <<req, local, snap, clock>>

---------------------------------------------------------------------------
(* POST /api/da: the purchase-request submitter.  Its code is not in       *)
(* backend_serveur.py; it is written from the specification's section 4.3. *)

\* quantity <= 0 or price < 0 on a line-item is an InvalidRequest.
InvalidArticle(article) == article.quantity <= 0 \/ article.price < 0

HeaderRow(da_number, request) ==
    [da_number |-> da_number, user_email |-> request.user_email,
     user_name |-> request.user_name, site |-> request.site,
     status |-> "pending"]

ArticleRow(da_number, article) ==
    [da_number |-> da_number, reference |-> article.reference,
     designation |-> article.designation, quantity |-> article.quantity,
     unit |-> article.unit, price |-> article.price]

\* The rows of a table that belong to another request.
WithoutDa(tbl, da_number) == SelectSeq(tbl, LAMBDA r : r.da_number # da_number)

\* The rows of a table that belong to the request.
OfDa(tbl, da_number) == SelectSeq(tbl, LAMBDA r : r.da_number = da_number)

NoCatalogueChange ==
    /\ NoCatalogueWrite
    /\ UNCHANGED <<snap, clock, req>>

\* An empty line-item list is an InvalidRequest; nothing is written.
da_validate(p) ==
    /\ pc[p] = "da_validate"
    /\ IF req[p].articles = <<>>
       THEN Return(p, HTTPException(400, "InvalidRequest"))
       ELSE Goto(p, "da_header") /\ UNCHANGED resp
    /\ UNCHANGED <<purchase_requests, da_articles, da_seq, local>>
    /\ NoCatalogueChange

\* Steps 1 and 2: a new da_number, and the header with status pending.
\* The store may fail the write.
da_header(p) ==
    /\ pc[p] = "da_header"
    /\ da_seq < MaxDa
    /\ da_seq' = da_seq + 1
    /\ \E stored \in BOOLEAN :
          /\ purchase_requests' =
                IF stored THEN Append(purchase_requests, HeaderRow(da_seq + 1, req[p]))
                ELSE purchase_requests
          /\ local' = [local EXCEPT ![p] =
                <<[da_number |-> da_seq + 1, i |-> 1,
                   error |-> IF stored THEN "" ELSE "StorageFailure"]>>]
          /\ Goto(p, IF stored THEN "da_article" ELSE "da_rollback")
    /\ UNCHANGED <<da_articles, resp>>
    /\ NoCatalogueChange

\* Step 3: the next line-item.  An invalid line-item, or a write the store
\* fails, fails the whole request.
da_article(p) ==
    /\ pc[p] = "da_article"
    /\ local[p][1].i <= Len(req[p].articles)
    /\ LET state == local[p][1]
           article == req[p].articles[state.i]
       IN  IF InvalidArticle(article)
           THEN /\ local' = [local EXCEPT ![p] = <<[state EXCEPT !.error = "InvalidRequest"]>>]
                /\ Goto(p, "da_rollback")
                /\ UNCHANGED da_articles
           ELSE \E stored \in BOOLEAN :
                   IF stored
                   THEN /\ da_articles' = Append(da_articles, ArticleRow(state.da_number, article))
                        /\ local' = [local EXCEPT ![p] = <<[state EXCEPT !.i = @ + 1]>>]
                        /\ UNCHANGED pc
                   ELSE /\ local' = [local EXCEPT ![p] = <<[state EXCEPT !.error = "StorageFailure"]>>]
                        /\ Goto(p, "da_rollback")
                        /\ UNCHANGED da_articles
    /\ UNCHANGED <<purchase_requests, da_seq, resp>>
    /\ NoCatalogueChange

\* The rollback as a mutant that removes the line-items and leaves the header.
da_rollback_ArticlesOnly(p) ==
    /\ pc[p] = "da_rollback"
    /\ da_articles' = WithoutDa(da_articles, local[p][1].da_number)
    /\ Return(p, HTTPException(IF local[p][1].error = "InvalidRequest" THEN 400 ELSE 500,
                               local[p][1].error))
    /\ UNCHANGED <<purchase_requests, da_seq, local>>
    /\ NoCatalogueChange

\* The request failed: its header and the line-items already written are
\* removed; InvalidRequest is a 400, StorageFailure a 500.
da_rollback(p) ==
    /\ pc[p] = "da_rollback"
    /\ purchase_requests' = WithoutDa(purchase_requests, local[p][1].da_number)
    /\ da_articles' = WithoutDa(da_articles, local[p][1].da_number)
    /\ Return(p, HTTPException(IF local[p][1].error = "InvalidRequest" THEN 400 ELSE 500,
                               local[p][1].error))
    /\ UNCHANGED <<da_seq, local>>
    /\ NoCatalogueChange

\* Every line-item is written: the da_number and the persisted request.
da_return(p) ==
    /\ pc[p] = "da_article"
    /\ local[p][1].i > Len(req[p].articles)
    /\ Return(p, [status |-> 200, da_number |-> local[p][1].da_number,
                  request |-> OfDa(purchase_requests, local[p][1].da_number),
                  articles |-> OfDa(da_articles, local[p][1].da_number)])
    /\ UNCHANGED <<purchase_requests, da_articles, da_seq, local>>
    /\ NoCatalogueChange

---------------------------------------------------------------------------
(* Requests *)

\* A Product body: unit, family and icon as a client fills them.
Product(reference, designation, price) ==
    [reference |-> reference, designation |-> designation, price |-> price,
     unit |-> "U", family |-> "Divers", icon |-> "box"]

\* The values a ProductUpdate body carries for the fields it supplies.
NewValues ==
    [designation |-> "Cable V2", price |-> 0, unit |-> "U",
     family |-> "Divers", icon |-> "box"]

ProductUpdate(fields) == [f \in fields |-> NewValues[f]]

\* One stored and one new reference.
References == {"CAB001", "NEW001"}

AddProductRequests ==
    {[op |-> "add_product", product |-> Product(r, d, 300)] :
        r \in References, d \in {"Cable V2", "New"}}

UpdateProductRequests(fieldSets) ==
    {[op |-> "update_product", reference |-> r, product |-> ProductUpdate(F)] :
        r \in References, F \in fieldSets}

DeleteProductRequests(refs) ==
    {[op |-> "delete_product", reference |-> r] : r \in refs}

\* Requests of Spec: concurrent product calls.
ProductRequests ==
    AddProductRequests
    \cup UpdateProductRequests({{}, {"price"}, ProductFields})
    \cup DeleteProductRequests(References)

\* The stored account and one that is not stored at startup.
Emails == {"t.tesson@edison-energies.com", "new@edison-energies.com"}

Passwords == {"demo123", "secret"}

\* A User body: the role is left to its default.
User(email, password) ==
    [email |-> email, name |-> "New User", password |-> password, role |-> "user"]

UserRequests ==
    {[op |-> "login", email |-> e, password |-> w] : e \in Emails, w \in Passwords}
    \cup {[op |-> "create_user", user |-> User(e, w)] : e \in Emails, w \in Passwords}
    \cup {[op |-> "get_users"]}

\* Sequences over a set, of a length up to n.
SeqUpTo(S, n) == UNION {[1..m -> S] : m \in 0..n}

\* Items of a batch: a stored or a new reference, well-formed or not.
BatchItems == {Product(r, "Cable V2", c) : r \in References, c \in {300, -1}}

BatchRequests == {[op |-> "batch", items |-> b] : b \in SeqUpTo(BatchItems, MaxBatch)}

\* Line-items: a valid one, one of quantity 0, one of a negative price.
Article(quantity, price) ==
    [reference |-> "CAB001", designation |-> "CABLE U1000 R2V 3G2.5",
     quantity |-> quantity, unit |-> "M", price |-> price]

DaArticles == {Article(2, 245), Article(0, 245), Article(2, -1)}

DaRequests ==
    {[op |-> "submit_da", user_email |-> "t.tesson@edison-energies.com",
      user_name |-> "Thomas Tesson", site |-> "Chantier A", articles |-> a] :
        a \in SeqUpTo(DaArticles, MaxArticles)}

FirstStatement(op) ==
    CASE op = "add_product" -> "add_product_insert"
      [] op = "update_product" -> "update_product_select"
      [] op = "delete_product" -> "delete_product_select"
      [] op = "login" -> "login_select"
      [] op = "get_users" -> "get_users"
      [] op = "create_user" -> "create_user_insert"
      [] op = "add_family" -> "add_family_insert"
      [] op = "delete_family" -> "delete_family_select"
      [] op = "batch" -> "batch_sync_begin"
      [] op = "submit_da" -> "da_validate"

\* A request of the set arrives on an idle thread.
receive(p, requests) ==
    \E r \in requests : Receive(p, r, FirstStatement(r.op))

\* The handler's frame is released after the answer: the cursor goes, and
\* with it a transaction that close() left open.
finalize(p) ==
    /\ pc[p] = "done"
    /\ writer = p
    /\ writer' = 0
    /\ pending' = NoTxn
    /\ UNCHANGED <<products, families, family_seq, users>>
    /\ UNCHANGED <<purchase_requests, da_articles, da_seq>>
    /\ UNCHANGED <<pc, req, local, resp, snap, clock>>

\* A thread that has answered, its connection gone, takes the next request.
next_request(p) ==
    /\ pc[p] = "done"
    /\ writer # p
    /\ pc' = [pc EXCEPT ![p] = "idle"]
    /\ req' = [req EXCEPT ![p] = NoRequest]
    /\ resp' = [resp EXCEPT ![p] = NoResponse]
    /\ local' = [local EXCEPT ![p] = <<>>]
    /\ snap' = [snap EXCEPT ![p] = NoTxn]
    /\ NoDb
    /\ UNCHANGED clock

---------------------------------------------------------------------------
(* Startup *)

\* init_db from an absent database file: the tables are created empty and
\* each receives its default rows.
Init ==
    /\ products = init_db(EmptyDb).products
    /\ families = init_db(EmptyDb).families
    /\ family_seq = init_db(EmptyDb).family_seq
    /\ users = init_db(EmptyDb).users
    /\ writer = 0
    /\ pending = NoTxn
    /\ pc = [p \in Procs |-> "idle"]
    /\ req = [p \in Procs |-> NoRequest]
    /\ local = [p \in Procs |-> <<>>]
    /\ resp = [p \in Procs |-> NoResponse]
    /\ snap = [p \in Procs |-> NoTxn]
    /\ clock = 1
    /\ purchase_requests = <<>>
    /\ da_articles = <<>>
    /\ da_seq = 0

---------------------------------------------------------------------------
(* Spec: NumCalls concurrent product requests, one per thread *)

ProductStep(p) ==
    \/ add_product_insert(p)
    \/ add_product_commit(p)
    \/ add_product_except(p)
    \/ update_product_select(p)
    \/ update_product_update(p)
    \/ update_product_commit(p)
    \/ update_product_reselect(p)
    \/ delete_product_select(p)
    \/ delete_product_delete(p)
    \/ delete_product_commit(p)

Next ==
    \E p \in Procs :
        \/ receive(p, ProductRequests)
        \/ ProductStep(p)
        \/ finalize(p)

Spec == Init /\ [][Next]_vars


---------------------------------------------------------------------------
(* Claims about concurrent product calls (Spec) *)

Is(p, op) == req[p].op = op

Done(p, op) == Is(p, op) /\ pc[p] = "done"

Stored(tbl, reference) == \E i \in DOMAIN tbl : tbl[i].reference = reference

RowsOf(tbl, reference) == {i \in DOMAIN tbl : tbl[i].reference = reference}

\* Two add_product calls for one reference that was stored when neither
\* arrived, with no other call adding or deleting that reference.
ConcurrentAdds(p, q) ==
    /\ p # q
    /\ Is(p, "add_product") /\ Is(q, "add_product")
    /\ req[p].product.reference = req[q].product.reference
    /\ ~Stored(snap[p].products, req[p].product.reference)
    /\ ~Stored(snap[q].products, req[p].product.reference)
    /\ \A o \in Procs \ {p, q} :
          ~(Is(o, "add_product")
              /\ req[o].product.reference = req[p].product.reference)
          /\ ~(Is(o, "delete_product")
              /\ req[o].reference = req[p].product.reference)

\* C1: of two concurrent add_product calls with the same reference, not yet
\* stored, exactly one answers success and the other 400 (duplicate key),
\* and afterwards exactly one product with that reference is stored.
C1_ConcurrentAddOneSucceeds ==
    \A p, q \in Procs :
        (ConcurrentAdds(p, q) /\ pc[p] = "done" /\ pc[q] = "done") =>
            /\ {resp[p].status, resp[q].status} = {200, 400}
            /\ Cardinality(RowsOf(products, req[p].product.reference)) = 1

C1_Witness ==
    \E p, q \in Procs :
        /\ ConcurrentAdds(p, q) /\ pc[p] = "done" /\ pc[q] = "done"
        /\ req[p].product # req[q].product
        /\ resp[p].status = 200 /\ resp[q].status = 400

\* C2: an add_product call whose reference is stored when its INSERT runs
\* takes the IntegrityError branch and answers 400, and none of its steps
\* changes the products table: the stored row keeps every field, and no
\* row is added, altered or removed.
C2_DuplicateAddRejected ==
    [][\A p \in Procs :
          /\ (/\ pc[p] = "add_product_insert"
              /\ pc'[p] # pc[p]
              /\ Stored(products, req[p].product.reference))
                => (pc'[p] = "add_product_except" /\ products' = products)
          /\ (pc[p] = "add_product_except" /\ pc'[p] # pc[p])
                => /\ Stored(products, req[p].product.reference)
                   /\ resp'[p].status = 400
                   /\ products' = products]_vars

C2_Witness ==
    \E p \in Procs :
        /\ Done(p, "add_product")
        /\ req[p].product.reference = "CAB001"
        /\ resp[p].status = 400
        /\ products = default_products

\* C8 as claimed: for a product stored once and never re-created, at most
\* one delete_product call for its reference answers success.
C8_OneDeleteSucceeds ==
    \A r \in References :
        (/\ Stored(default_products, r)
         /\ \A o \in Procs : ~(Is(o, "add_product") /\ req[o].product.reference = r))
        => Cardinality({p \in Procs : /\ Done(p, "delete_product")
                                      /\ req[p].reference = r
                                      /\ resp[p].status = 200}) <= 1

\* C9 as claimed: an update_product call ends with 404 or with success
\* carrying the stored row, never with an unhandled error.
C9_UpdateEndsIn404OrSuccess ==
    \A p \in Procs :
        Done(p, "update_product") => resp[p].status \in {200, 404}


---------------------------------------------------------------------------
(* SpecSeq: product requests served one after the other, with every        *)
(* combination of supplied fields in a ProductUpdate                       *)

SeqRequests ==
    AddProductRequests
    \cup UpdateProductRequests(SUBSET ProductFields)
    \cup DeleteProductRequests(References)

NextSeq ==
    \/ receive(1, SeqRequests)
    \/ ProductStep(1)
    \/ finalize(1)
    \/ next_request(1)

SpecSeq == Init /\ [][NextSeq]_vars

\* C3: update_product is a partial update.  For a stored reference it
\* answers success with the stored row, in which exactly the supplied
\* (non-null) fields among designation, price, unit, family, icon carry the
\* request's values; the unsupplied fields, the reference and every other
\* row are as before the call.  For a reference that is not stored it
\* answers 404 and the table is as before the call.
C3_PartialUpdate ==
    \A p \in Procs :
        Done(p, "update_product") =>
            LET before == snap[p].products
                ref == req[p].reference
                body == req[p].product
            IN  IF Stored(before, ref)
                THEN /\ resp[p].status = 200
                     /\ DOMAIN products = DOMAIN before
                     /\ \A i \in DOMAIN before :
                           IF before[i].reference = ref
                           THEN /\ \A f \in DOMAIN before[i] :
                                      products[i][f] =
                                         IF f \in ProductFields /\ f \in DOMAIN body
                                         THEN body[f] ELSE before[i][f]
                                /\ resp[p].product = products[i]
                           ELSE products[i] = before[i]
                ELSE /\ resp[p].status = 404
                     /\ products = before

\* A price of 0 alone is supplied for a stored product with another price.
C3_Witness ==
    \E p \in Procs :
        /\ Done(p, "update_product")
        /\ DOMAIN req[p].product = {"price"}
        /\ \E i \in DOMAIN snap[p].products :
              /\ snap[p].products[i].reference = req[p].reference
              /\ snap[p].products[i].price # 0
              /\ products[i].price = 0
              /\ products[i].designation = snap[p].products[i].designation


---------------------------------------------------------------------------
(* SpecUsers: NumCalls concurrent account requests, one per thread *)

UserStep(p) ==
    \/ login_select(p)
    \/ login_update(p)
    \/ login_commit(p)
    \/ get_users(p)
    \/ create_user_insert(p)
    \/ create_user_commit(p)
    \/ create_user_except(p)

NextUsers ==
    \/ \E p \in Procs :
          \/ receive(p, UserRequests)
          \/ UserStep(p)
          \/ finalize(p)
    \/ tick

SpecUsers == Init /\ [][NextUsers]_vars

StoredHashes == {users[i].password : i \in DOMAIN users}

\* A dict of a response carries a password key or a stored hash as a value.
Exposes(dict) ==
    \/ "password" \in DOMAIN dict
    \/ \E f \in DOMAIN dict : dict[f] \in StoredHashes

\* C4: no response of login or get_users, success or failure, carries a
\* password field or a stored password hash.
C4_NoPasswordInResponse ==
    \A p \in Procs :
        (pc[p] = "done" /\ req[p].op \in {"login", "get_users"}) =>
            /\ "password" \notin DOMAIN resp[p]
            /\ resp[p].status # 200 => resp[p].detail \notin StoredHashes
            /\ (resp[p].status = 200 /\ Is(p, "login")) => ~Exposes(resp[p].user)
            /\ (resp[p].status = 200 /\ Is(p, "get_users")) =>
                  \A i \in DOMAIN resp[p].users : ~Exposes(resp[p].users[i])

C4_Witness ==
    /\ \E p \in Procs : Done(p, "login") /\ resp[p].status = 200
                        /\ resp[p].user.email \in Emails
    /\ \E p \in Procs : Done(p, "get_users") /\ resp[p].count >= 1

\* The credentials match a stored account.
Matches(tbl, email, password) ==
    \E i \in DOMAIN tbl :
        tbl[i].email = email /\ tbl[i].password = sha256(password)

\* users' is users but for the last_login of the account of email.
OnlyLastLoginOf(email) ==
    /\ DOMAIN users' = DOMAIN users
    /\ \A i \in DOMAIN users :
          /\ users[i].email # email => users'[i] = users[i]
          /\ \A f \in DOMAIN users[i] \ {"last_login"} : users'[i][f] = users[i][f]

\* C5: login goes on to success exactly when an account with the email is
\* stored whose password is the hash of the given password (so with the
\* credentials of a create_user call that answered success); otherwise it
\* answers 401.  A failing login changes nothing in users, last_login
\* included; a successful one answers 200 and changes only the last_login
\* of that account.
C5_LoginIffCredentialsMatch ==
    [][\A p \in Procs :
          /\ (pc[p] = "login_select" /\ pc'[p] # pc[p]) =>
                /\ users' = users
                /\ IF Matches(users, req[p].email, req[p].password)
                   THEN pc'[p] = "login_update"
                   ELSE pc'[p] = "done" /\ resp'[p].status = 401
                /\ (\E q \in Procs :
                       /\ Done(q, "create_user") /\ resp[q].status = 200
                       /\ req[q].user.email = req[p].email
                       /\ req[q].user.password = req[p].password)
                   => pc'[p] = "login_update"
          /\ (pc[p] = "login_update" /\ pc'[p] # pc[p]) =>
                users' = users /\ pc'[p] = "login_commit"
          /\ (pc[p] = "login_commit" /\ pc'[p] # pc[p]) =>
                /\ resp'[p].status = 200
                /\ Matches(users, req[p].email, req[p].password)
                /\ OnlyLastLoginOf(req[p].email)]_vars

\* A login with the credentials of an account created by another call
\* succeeds and stamps last_login.
C5_Witness ==
    \E p, q \in Procs :
        /\ Done(q, "create_user") /\ resp[q].status = 200
        /\ Done(p, "login") /\ resp[p].status = 200
        /\ req[p].email = req[q].user.email
        /\ \E i \in DOMAIN users :
              users[i].email = req[p].email /\ users[i].last_login # NoLogin


---------------------------------------------------------------------------
(* SpecRestart: requests served one after the other, and restarts *)

DefaultReferences == {default_products[i].reference : i \in DOMAIN default_products}

RestartRequests ==
    DeleteProductRequests(DefaultReferences)
    \cup {[op |-> "delete_family", family_id |-> n] : n \in 1..MaxFamilyId}
    \cup {[op |-> "add_family", family |-> [name |-> "Divers", icon |-> "folder"]]}
    \cup {[op |-> "create_user", user |-> User("new@edison-energies.com", "secret")]}

NextRestart ==
    \/ receive(1, RestartRequests)
    \/ delete_product_select(1)
    \/ delete_product_delete(1)
    \/ delete_product_commit(1)
    \/ add_family_insert(1)
    \/ add_family_commit(1)
    \/ add_family_reselect(1)
    \/ add_family_except(1)
    \/ delete_family_select(1)
    \/ delete_family_delete(1)
    \/ delete_family_commit(1)
    \/ create_user_insert(1)
    \/ create_user_commit(1)
    \/ create_user_except(1)
    \/ finalize(1)
    \/ next_request(1)
    \/ shutdown
    \/ startup_event

SpecRestart == Init /\ [][NextRestart]_vars

\* The step is startup_event: the server comes up.
Restarts == (\A p \in Procs : pc[p] = "down") /\ (\A p \in Procs : pc'[p] = "idle")

\* C10 as claimed: a restart leaves products, families and users as they
\* were persisted.
C10_RestartPreservesTables ==
    [][Restarts => /\ products' = products
                   /\ families' = families
                   /\ users' = users]_vars

\* The names and icons of the rows of families, in order.
NamesAndIcons(tbl) == [i \in DOMAIN tbl |-> [name |-> tbl[i].name, icon |-> tbl[i].icon]]

\* C10, amended: a restart leaves every table that holds at least one row
\* exactly as persisted, so a deleted product or family stays absent while
\* its table is not empty; a table that holds no row receives its default
\* rows again (the default families under fresh ids).
C10_RestartPreservesNonEmptyTables ==
    [][Restarts =>
          /\ products' = IF products = <<>> THEN default_products ELSE products
          /\ IF families = <<>>
             THEN /\ NamesAndIcons(families') = default_families
                  /\ \A i \in DOMAIN families' : families'[i].id = family_seq + i
             ELSE families' = families
          /\ users' = users]_vars

\* After a restart: the default families are back under fresh ids, and of
\* the three default products one is still absent.
C10_Witness ==
    /\ \A p \in Procs : pc[p] = "idle"
    /\ Len(families) = Len(default_families)
    /\ families[1].id > Len(default_families)
    /\ Len(products) = 2
    /\ Len(users) = 2


---------------------------------------------------------------------------
(* SpecBatch: batches synchronized one after the other *)

NextBatch ==
    \/ receive(1, BatchRequests)
    \/ batch_sync_begin(1)
    \/ batch_sync_item(1)
    \/ batch_sync_return(1)
    \/ next_request(1)

SpecBatch == Init /\ [][NextBatch]_vars

MalformedItems(items) == {k \in DOMAIN items : Malformed(items[k])}

\* The last well-formed item of the batch with the reference of item j.
LastGood(items, j) ==
    CHOOSE m \in DOMAIN items \ MalformedItems(items) :
        /\ items[m].reference = items[j].reference
        /\ \A n \in DOMAIN items \ MalformedItems(items) :
              items[n].reference = items[j].reference => n <= m

\* C6: a batch of N items of which exactly one, item k, is malformed is
\* answered with a report, not an error: created + updated = N - 1,
\* failed = 1, one error entry naming item k's reference, total = N; every
\* other item is stored as its reference's last well-formed item gives it,
\* and the rows no well-formed item names are as before the batch.
C6_BatchIsolatesFailure ==
    \A p \in Procs :
        (Done(p, "batch") /\ Cardinality(MalformedItems(req[p].items)) = 1) =>
            LET items == req[p].items
                k == CHOOSE k \in MalformedItems(items) : TRUE
                good == DOMAIN items \ {k}
            IN  /\ resp[p].status = 200
                /\ resp[p].created + resp[p].updated = Len(items) - 1
                /\ resp[p].failed = 1
                /\ Len(resp[p].errors) = 1
                /\ resp[p].errors[1].reference = items[k].reference
                /\ resp[p].total = Len(items)
                /\ \A j \in good :
                      \E i \in DOMAIN products :
                          /\ products[i].reference = items[j].reference
                          /\ \A f \in ProductFields :
                                products[i][f] = items[LastGood(items, j)][f]
                /\ \A i \in DOMAIN snap[p].products :
                      (\A j \in good : items[j].reference # snap[p].products[i].reference)
                      => \E n \in DOMAIN products : products[n] = snap[p].products[i]

\* A batch of three items, the second malformed, one created, one updated.
C6_Witness ==
    \E p \in Procs :
        /\ Done(p, "batch")
        /\ Len(req[p].items) = 3
        /\ MalformedItems(req[p].items) = {2}
        /\ resp[p].created = 1 /\ resp[p].updated = 1 /\ resp[p].failed = 1


---------------------------------------------------------------------------
(* SpecDA: purchase requests submitted one after the other *)

NextDA ==
    \/ receive(1, DaRequests)
    \/ da_validate(1)
    \/ da_header(1)
    \/ da_article(1)
    \/ da_rollback(1)
    \/ da_return(1)
    \/ next_request(1)

SpecDA == Init /\ [][NextDA]_vars

\* The submission of thread p is answered in this step.
Answered(p) == Is(p, "submit_da") /\ pc[p] # "done" /\ pc'[p] = "done"

\* C7: a submission is all-or-nothing.  One with an empty article list is
\* answered 400 InvalidRequest and writes no row.  One with an invalid
\* line-item, or one the store fails, is answered with an error, and once
\* it is answered no header and no line-item of its da_number is stored.
\* One answered with success has its header and every line-item stored.
C7_DaAllOrNothing ==
    [][\A p \in Procs :
          /\ (pc[p] = "da_validate" /\ pc'[p] # pc[p] /\ req[p].articles = <<>>) =>
                /\ pc'[p] = "done"
                /\ resp'[p] = HTTPException(400, "InvalidRequest")
                /\ purchase_requests' = purchase_requests
                /\ da_articles' = da_articles
          /\ (Answered(p) /\ req[p].articles # <<>>) =>
                LET n == local[p][1].da_number IN
                IF resp'[p].status = 200
                THEN /\ \A i \in DOMAIN req[p].articles : ~InvalidArticle(req[p].articles[i])
                     /\ Len(OfDa(purchase_requests', n)) = 1
                     /\ OfDa(da_articles', n) =
                           [i \in DOMAIN req[p].articles |-> ArticleRow(n, req[p].articles[i])]
                ELSE /\ resp'[p].status \in {400, 500}
                     /\ OfDa(purchase_requests', n) = <<>>
                     /\ OfDa(da_articles', n) = <<>>]_vars

\* A submission of three line-items, the last invalid, was answered 400
\* after an earlier submission was stored whole.
C7_Witness ==
    \E p \in Procs :
        /\ Done(p, "submit_da")
        /\ Len(req[p].articles) = 3
        /\ ~InvalidArticle(req[p].articles[1])
        /\ ~InvalidArticle(req[p].articles[2])
        /\ InvalidArticle(req[p].articles[3])
        /\ resp[p].status = 400
        /\ local[p][1].da_number = 2
        /\ Len(purchase_requests) = 1
        /\ da_articles # <<>>


===========================================================================
